---- MODULE Spec2Model ----
(***************************************************************************)
(* Model of morse-cli (src/main.rs): parse_morse_code turns a string of    *)
(* '.'/'-' symbols and spaces into a Vec<Instruction>; main then hands it  *)
(* to play_audio (rodio sink) or to render_audio (hound WAV writer).       *)
(*                                                                         *)
(* Strings are sequences of one-character strings.  f32 values are pairs   *)
(* <<m, e>> standing for m * 2^e with 2^23 <= m < 2^24, and the f32        *)
(* operations round to nearest, ties to even, as IEEE-754 binary32 does.   *)
(* Sample amplitudes (the sin() of line 184) are not modelled: the WAV     *)
(* file is modelled by the number of samples written to it.                *)
(***************************************************************************)
EXTENDS Integers, Sequences, FiniteSets, TLC

\* Longest input string enumerated exhaustively over Chars.
MaxLen == 4

\* The characters an input string is built from; "x" stands for any
\* character other than '.', '-' and ' '.
Chars == {".", "-", " ", "x"}

\* ".- -...": the two-letter example, and "... --- ...": SOS.
ExampleAB == <<".", "-", " ", "-", ".", ".", ".">>
SOS == <<".", ".", ".", " ", "-", "-", "-", " ", ".", ".", ".">>

\* The values of --unit that are tried, in thousandths of a second.
UnitChoices == {300, 500, 1000}

----------------------------------------------------------------------------
(* binary32 arithmetic *)

Pow2(n) == 2 ^ n

RECURSIVE NormShift(_)
\* How far n must be shifted left for its top bit to be bit 23.
NormShift(n) == IF n >= Pow2(23) THEN 0 ELSE 1 + NormShift(2 * n)

RECURSIVE LongDiv(_, _, _, _)
\* k more bits of the quotient whose bits so far are q, remainder r < d.
LongDiv(q, r, d, k) ==
    IF k = 0 THEN <<q, r>>
    ELSE LET r2 == 2 * r
         IN  IF r2 >= d THEN LongDiv(2 * q + 1, r2 - d, d, k - 1)
                        ELSE LongDiv(2 * q, r2, d, k - 1)

\* Round to nearest, ties to even: q with remainder r over d.
RoundNearestEven(q, r, d) ==
    IF 2 * r > d \/ (2 * r = d /\ q % 2 = 1) THEN q + 1 ELSE q

\* Renormalize a mantissa that rounding carried up to 2^24.
Renorm(m, e) == IF m = Pow2(24) THEN <<Pow2(23), e + 1>> ELSE <<m, e>>

\* The binary32 value nearest to n / d, for 0 < n, d < 2^24.
F32FromRatio(n, d) ==
    LET a  == NormShift(n)
        b  == NormShift(d)
        nn == n * Pow2(a)
        dd == d * Pow2(b)
        k  == IF nn >= dd THEN 23 ELSE 24
        qr == LongDiv(nn \div dd, nn % dd, dd, k)
    IN  Renorm(RoundNearestEven(qr[1], qr[2], dd), (b - a) - k)

\* n as f32, for 0 < n < 2^24 (exact).
F32FromInt(n) == F32FromRatio(n, 1)

\* x / y in f32.
F32Div(x, y) ==
    LET q == F32FromRatio(x[1], y[1])
    IN  <<q[1], q[2] + x[2] - y[2]>>

RECURSIVE OddPart(_)
\* <<m, s>> with n = m * 2^s and m odd.
OddPart(n) == IF n % 2 = 1 THEN <<n, 0>>
              ELSE LET p == OddPart(n \div 2) IN <<p[1], p[2] + 1>>

\* x * y in f32, for a y whose odd part is below 2^7 (the product of the
\* mantissas then fits the integers of the checker).
F32Mul(x, y) ==
    LET oy == OddPart(y[1])
        p  == x[1] * oy[1]
        w  == IF p >= Pow2(30) THEN 7
              ELSE IF p >= Pow2(29) THEN 6
              ELSE IF p >= Pow2(28) THEN 5
              ELSE IF p >= Pow2(27) THEN 4
              ELSE IF p >= Pow2(26) THEN 3
              ELSE IF p >= Pow2(25) THEN 2
              ELSE IF p >= Pow2(24) THEN 1 ELSE 0
        d  == Pow2(w)
    IN  Renorm(RoundNearestEven(p \div d, p % d, d),
               x[2] + y[2] + oy[2] + w)

\* `as u64` of a positive f32: truncation toward zero.
F32AsU64(x) ==
    IF x[2] >= 0 THEN x[1] * Pow2(x[2])
    ELSE IF -x[2] > 24 THEN 0
    ELSE x[1] \div Pow2(-x[2])

----------------------------------------------------------------------------
(* enum MorseCode, enum Instruction *)

Dah == "Dah"
Dit == "Dit"

Morse(c) == <<"Morse", c>>
SymbolSpace == <<"SymbolSpace">>
LetterSpace == <<"LetterSpace">>
WordSpace == <<"WordSpace">>

\* impl TryFrom<char> for MorseCode.
TryFrom(value) ==
    IF value = "-" THEN [ok |-> TRUE, val |-> Dah]
    ELSE IF value = "." THEN [ok |-> TRUE, val |-> Dit]
    ELSE [ok |-> FALSE, val |-> "unprocessable code points"]

----------------------------------------------------------------------------
(* parse_morse_code *)

RECURSIVE SplitFrom(_, _, _)
\* code.split(' ') from position i on, cur being the piece read so far:
\* every space ends a piece, and the end of the string ends the last one.
SplitFrom(s, i, cur) ==
    IF i > Len(s) THEN <<cur>>
    ELSE IF s[i] = " " THEN <<cur>> \o SplitFrom(s, i + 1, <<>>)
    ELSE SplitFrom(s, i + 1, Append(cur, s[i]))

Split(s) == SplitFrom(s, 1, <<>>)

RECURSIVE MapWord(_)
\* word.chars().map(TryFrom::try_from).flatten().map(Instruction::Morse):
\* flatten() keeps the Ok values and drops the Err ones.
MapWord(word) ==
    IF word = <<>> THEN <<>>
    ELSE LET r == TryFrom(Head(word))
         IN  (IF r.ok THEN <<Morse(r.val)>> ELSE <<>>) \o MapWord(Tail(word))

MapLetters(code) ==
    LET pieces == Split(code)
    IN  [i \in 1..Len(pieces) |-> MapWord(pieces[i])]

\* usize::MAX, the value of 0usize - 1 when overflow checks are off.  Its
\* only use is as the right-hand side of `index < len`; it is represented
\* by the largest integer of the checker.
UsizeMax == Pow2(30) + (Pow2(30) - 1)

\* The fault of taking letter.len() itself for the last index.
Sub1Forgotten(n) == n

\* n - 1 on usize without overflow checks.
WrappingSub1(n) == IF n = 0 THEN UsizeMax ELSE n - 1

\* The fault of `<=` in the test of line 109.
SymbolSpaceAlways(index_inner, letter_code_len) ==
    index_inner <= letter_code_len

\* The test of line 109: a symbol pause follows this code.
SymbolSpaceFollows(index_inner, letter_code_len) ==
    index_inner < letter_code_len

\* The fault of `<=` in the test of line 117.
LetterSpaceAlways(idx, n_letters) == idx <= n_letters

\* The test of line 117: a letter pause follows this letter.
LetterSpaceFollows(idx, n_letters) == idx < n_letters

RECURSIVE InnerLoop(_, _, _)
\* The pushes of the inner for loop from 0-based position index_inner on.
InnerLoop(letter, index_inner, letter_code_len) ==
    IF index_inner >= Len(letter) THEN <<>>
    ELSE <<letter[index_inner + 1]>>
         \o (IF SymbolSpaceFollows(index_inner, letter_code_len)
             THEN <<SymbolSpace>> ELSE <<>>)
         \o InnerLoop(letter, index_inner + 1, letter_code_len)

\* The fault of encoding an empty letter (two spaces in a row) as a word
\* pause.
OuterIterationWordSpace(letter, idx, n_letters) ==
    IF Len(letter) = 0 THEN <<WordSpace>>
    ELSE InnerLoop(letter, 0, WrappingSub1(Len(letter)))
         \o (IF LetterSpaceFollows(idx, n_letters) THEN <<LetterSpace>> ELSE <<>>)

\* What one iteration of the outer for loop pushes onto res.
OuterIteration(letter, idx, n_letters) ==
    InnerLoop(letter, 0, WrappingSub1(Len(letter)))
    \o (IF LetterSpaceFollows(idx, n_letters) THEN <<LetterSpace>> ELSE <<>>)

----------------------------------------------------------------------------
(* program state *)

VARIABLES
    code,              \* args.morse_code
    unit,              \* args.unit, an f32
    outfile,           \* args.outfile.is_some()
    overflow_checks,   \* whether the build panics on integer overflow
    pc,                \* where the program is
    panic,             \* the panic that ended the program, or "none"
    letters,           \* parse_morse_code: Vec<Vec<Instruction>>
    number_of_letters, \* parse_morse_code: letters.len() - 1
    index,             \* parse_morse_code: position of the outer loop
    res,               \* parse_morse_code: the Vec being built
    underflowed,       \* some `len() - 1` was evaluated on a zero length
    morse_code,        \* main: the instructions handed to the renderer
    cursor,            \* play_audio / render_audio: position of `for is in ins`
    dot_duration,      \* play_audio: milliseconds
    sink,              \* play_audio: lengths (ms) of the sources queued
    sleep_for,         \* play_audio: length (ms) of the sleep in progress
    log,               \* play_audio: tones played out and sleeps slept, in order
    dit_samples,       \* render_audio
    dah_samples,       \* render_audio
    file               \* render_audio: the file at the output path

vars == <<code, unit, outfile, overflow_checks, pc, panic, letters,
          number_of_letters, index, res, underflowed, morse_code, cursor,
          dot_duration, sink, sleep_for, log, dit_samples, dah_samples, file>>

args == <<code, unit, outfile, overflow_checks>>
parse_locals == <<letters, number_of_letters, index, res>>
play_locals == <<dot_duration, sink, sleep_for, log>>
render_locals == <<dit_samples, dah_samples, file>>

\* Every string over Chars of at most MaxLen characters, and the two
\* examples.
Inputs == UNION {[1..n -> Chars] : n \in 0..MaxLen} \cup {ExampleAB, SOS}

\* spec.sample_rate of render_audio.
sample_rate == 44100

NoFile == [exists |-> FALSE, samples |-> 0, closed |-> FALSE]

Init ==
    /\ code \in Inputs
    /\ \E u \in UnitChoices : unit = F32FromRatio(u, 1000)
    /\ outfile \in BOOLEAN
    /\ overflow_checks \in BOOLEAN
    /\ pc = "main"
    /\ panic = "none"
    /\ letters = <<>>
    /\ number_of_letters = 0
    /\ index = 0
    /\ res = <<>>
    /\ underflowed = FALSE
    /\ morse_code = <<>>
    /\ cursor = 0
    /\ dot_duration = 0
    /\ sink = <<>>
    /\ sleep_for = 0
    /\ log = <<>>
    /\ dit_samples = 0
    /\ dah_samples = 0
    /\ file = NoFile

----------------------------------------------------------------------------
(* parse_morse_code, called from main *)

\* Lines 84-97: split, map, letters.len() - 1, the empty res.
ParseBegin ==
    /\ pc = "main"
    /\ LET ls == MapLetters(code)
       IN  /\ letters' = ls
           /\ number_of_letters' = WrappingSub1(Len(ls))
           /\ underflowed' = (Len(ls) = 0)
           /\ IF Len(ls) = 0 /\ overflow_checks
              THEN pc' = "panicked" /\ panic' = "attempt to subtract with overflow"
              ELSE pc' = "parse_loop" /\ panic' = panic
    /\ index' = 0
    /\ res' = <<>>
    /\ UNCHANGED <<args, morse_code, cursor, play_locals, render_locals>>

\* Lines 100-120: one iteration of the outer loop.  letter.len() - 1 on an
\* empty letter panics when overflow checks are on and wraps when not.
ParseLetter ==
    /\ pc = "parse_loop"
    /\ index < Len(letters)
    /\ LET letter == letters[index + 1]
       IN  IF Len(letter) = 0 /\ overflow_checks
           THEN /\ pc' = "panicked"
                /\ panic' = "attempt to subtract with overflow"
                /\ underflowed' = TRUE
                /\ UNCHANGED <<index, res>>
           ELSE /\ res' = res \o OuterIteration(letter, index, number_of_letters)
                /\ index' = index + 1
                /\ underflowed' = (underflowed \/ Len(letter) = 0)
                /\ UNCHANGED <<pc, panic>>
    /\ UNCHANGED <<args, letters, number_of_letters, morse_code, cursor,
                   play_locals, render_locals>>

\* Line 122 and lines 53-59 of main: res is returned and main picks the
\* renderer.
ParseReturn ==
    /\ pc = "parse_loop"
    /\ index = Len(letters)
    /\ morse_code' = res
    /\ pc' = IF outfile THEN "render_audio" ELSE "play_audio"
    /\ UNCHANGED <<args, panic, parse_locals, underflowed, cursor,
                   play_locals, render_locals>>

----------------------------------------------------------------------------
(* play_audio *)

\* Line 130: (args.unit * 1000.) as u64, in milliseconds.
DotDuration(u) == F32AsU64(F32Mul(u, F32FromInt(1000)))

\* Lines 126-132: the output stream and the sink are opened, which fails
\* when there is no output device; main's expect() then panics.
PlayOpen ==
    /\ pc = "play_audio"
    /\ \E device \in BOOLEAN :
         IF device
         THEN /\ dot_duration' = DotDuration(unit)
              /\ cursor' = 0
              /\ pc' = "play_loop"
              /\ panic' = panic
         ELSE /\ pc' = "panicked"
              /\ panic' = "failed to render morse code"
              /\ UNCHANGED <<dot_duration, cursor>>
    /\ UNCHANGED <<args, parse_locals, underflowed, morse_code, sink,
                   sleep_for, log, render_locals>>

\* Lines 134-151: the match on the next instruction, up to the point where
\* the thread blocks.
PlayInstruction ==
    /\ pc = "play_loop"
    /\ cursor < Len(morse_code)
    /\ LET is == morse_code[cursor + 1]
       IN  CASE is = Morse(Dit) ->
                    /\ sink' = Append(sink, dot_duration)
                    /\ pc' = "sleep_until_end"
                    /\ UNCHANGED <<sleep_for, panic>>
             [] is = Morse(Dah) ->
                    /\ sink' = Append(sink, dot_duration * 3)
                    /\ pc' = "sleep_until_end"
                    /\ UNCHANGED <<sleep_for, panic>>
             [] is = SymbolSpace ->
                    /\ sleep_for' = dot_duration
                    /\ pc' = "sleep"
                    /\ UNCHANGED <<sink, panic>>
             [] is = LetterSpace ->
                    /\ sleep_for' = dot_duration * 3
                    /\ pc' = "sleep"
                    /\ UNCHANGED <<sink, panic>>
             [] OTHER ->
                    /\ pc' = "panicked"
                    /\ panic' = "unreachable"
                    /\ UNCHANGED <<sink, sleep_for>>
    /\ UNCHANGED <<args, parse_locals, underflowed, morse_code, cursor,
                   dot_duration, log, render_locals>>

\* The sink's playback thread plays the source at the head of its queue
\* to its end.
SinkPlay ==
    /\ sink # <<>>
    /\ log' = Append(log, <<"tone", Head(sink)>>)
    /\ sink' = Tail(sink)
    /\ UNCHANGED <<args, pc, panic, parse_locals, underflowed, morse_code,
                   cursor, dot_duration, sleep_for, render_locals>>

\* The fault of not waiting for the sink: the call returns at once.
SleepUntilEndSkipped == TRUE

\* Lines 141 and 145: sink.sleep_until_end() returns once the sink is empty.
SleepUntilEndReturns == sink = <<>>

PlayResume ==
    /\ pc = "sleep_until_end"
    /\ SleepUntilEndReturns
    /\ cursor' = cursor + 1
    /\ pc' = "play_loop"
    /\ UNCHANGED <<args, panic, parse_locals, underflowed, morse_code,
                   play_locals, render_locals>>

\* Lines 148-149: sleep() returns after the requested time.
SleepReturn ==
    /\ pc = "sleep"
    /\ log' = Append(log, <<"sleep", sleep_for>>)
    /\ cursor' = cursor + 1
    /\ pc' = "play_loop"
    /\ UNCHANGED <<args, panic, parse_locals, underflowed, morse_code,
                   dot_duration, sink, sleep_for, render_locals>>

\* Line 154: the loop is over, Ok(()) is returned and main ends.
PlayReturn ==
    /\ pc = "play_loop"
    /\ cursor = Len(morse_code)
    /\ pc' = "done"
    /\ UNCHANGED <<args, panic, parse_locals, underflowed, morse_code, cursor,
                   play_locals, render_locals>>

----------------------------------------------------------------------------
(* render_audio *)

\* Lines 173-174: (spec.sample_rate as f32 / args.unit) as u64.
DitSamples(u) == F32AsU64(F32Div(F32FromInt(sample_rate), u))

\* Line 175.
DahSamples(u) == DitSamples(u) * 3

\* Lines 164-175: WavWriter::create(path, spec).unwrap() creates (or
\* truncates) the file at the output path; the sample counts follow.
RenderCreate ==
    /\ pc = "render_audio"
    /\ \E created \in BOOLEAN :
         IF created
         THEN /\ file' = [exists |-> TRUE, samples |-> 0, closed |-> FALSE]
              /\ dit_samples' = DitSamples(unit)
              /\ dah_samples' = DahSamples(unit)
              /\ cursor' = 0
              /\ pc' = "render_loop"
              /\ panic' = panic
         ELSE /\ pc' = "panicked"
              /\ panic' = "create"
              /\ UNCHANGED <<file, dit_samples, dah_samples, cursor>>
    /\ UNCHANGED <<args, parse_locals, underflowed, morse_code, play_locals>>

\* The number of write_sample calls one instruction makes (lines 183, 190,
\* 197, 198 and wav_sleep); -1 for the unreachable!() arm.
SamplesOf(is, dit, dah) ==
    CASE is = Morse(Dit) -> dit
      [] is = Morse(Dah) -> dah
      [] is = SymbolSpace -> dit
      [] is = LetterSpace -> dah
      [] OTHER -> -1

\* The numbers of samples after which a write_sample(..).unwrap() of an
\* instruction of n samples is tried failing: at once, and on the last one.
FailPoints(n) == {k \in {0, n - 1} : 0 <= k /\ k < n}

\* Lines 177-200: one iteration of the loop.  Every write_sample may fail;
\* the unwrap() then panics and the writer is dropped with what was
\* written so far left in the file at the output path.
RenderInstruction ==
    /\ pc = "render_loop"
    /\ cursor < Len(morse_code)
    /\ LET n == SamplesOf(morse_code[cursor + 1], dit_samples, dah_samples)
       IN  IF n < 0
           THEN /\ pc' = "panicked"
                /\ panic' = "unreachable"
                /\ file' = [file EXCEPT !.closed = TRUE]
                /\ UNCHANGED cursor
           ELSE \E written \in {n} \cup FailPoints(n) :
                  IF written = n
                  THEN /\ file' = [file EXCEPT !.samples = @ + n]
                       /\ cursor' = cursor + 1
                       /\ UNCHANGED <<pc, panic>>
                  ELSE /\ file' = [file EXCEPT !.samples = @ + written,
                                               !.closed = TRUE]
                       /\ pc' = "panicked"
                       /\ panic' = "write"
                       /\ UNCHANGED cursor
    /\ UNCHANGED <<args, parse_locals, underflowed, morse_code, play_locals,
                   dit_samples, dah_samples>>

\* Line 202: the loop is over; the writer is dropped, which closes the file.
RenderReturn ==
    /\ pc = "render_loop"
    /\ cursor = Len(morse_code)
    /\ file' = [file EXCEPT !.closed = TRUE]
    /\ pc' = "done"
    /\ UNCHANGED <<args, panic, parse_locals, underflowed, morse_code, cursor,
                   play_locals, dit_samples, dah_samples>>

----------------------------------------------------------------------------

Next ==
    \/ ParseBegin
    \/ ParseLetter
    \/ ParseReturn
    \/ PlayOpen
    \/ PlayInstruction
    \/ SinkPlay
    \/ PlayResume
    \/ SleepReturn
    \/ PlayReturn
    \/ RenderCreate
    \/ RenderInstruction
    \/ RenderReturn

Spec == Init /\ [][Next]_vars

----------------------------------------------------------------------------
(* vocabulary of the properties *)

\* parse_morse_code has returned to main.
Parsed == pc \notin {"main", "parse_loop"} /\ panic # "attempt to subtract with overflow"

HasInvalidChar(s) == \E i \in 1..Len(s) : s[i] \notin {".", "-", " "}

SymbolCount(s) == Cardinality({i \in 1..Len(s) : s[i] # " "})
LetterCount(s) == Cardinality({i \in 1..Len(s) : s[i] = " "}) + 1

\* Letters of one or more '.'/'-' symbols separated by single spaces.
ValidMorse(s) ==
    /\ Len(s) > 0
    /\ ~HasInvalidChar(s)
    /\ s[1] # " "
    /\ s[Len(s)] # " "
    /\ \A i \in 1..(Len(s) - 1) : ~(s[i] = " " /\ s[i + 1] = " ")

CountOf(seq, x) == Cardinality({i \in 1..Len(seq) : seq[i] = x})

IsTone(is) == is[1] = "Morse"

\* args.unit in milliseconds, as it was given on the command line.
UnitMs == CHOOSE u \in UnitChoices : unit = F32FromRatio(u, 1000)

\* The default of --unit, 0.3.
DefaultUnit == F32FromRatio(3, 10)

\* What the live renderer is to do for one instruction.
Event(is) ==
    CASE is = Morse(Dit) -> <<"tone", UnitMs>>
      [] is = Morse(Dah) -> <<"tone", 3 * UnitMs>>
      [] is = SymbolSpace -> <<"sleep", UnitMs>>
      [] is = LetterSpace -> <<"sleep", 3 * UnitMs>>
      [] OTHER -> <<"none", 0>>

Events(n) == [i \in 1..n |-> Event(morse_code[i])]

RECURSIVE TotalSamples(_, _)
\* The samples the first n instructions of morse_code take.
TotalSamples(seq, n) ==
    IF n = 0 THEN 0
    ELSE SamplesOf(seq[n], dit_samples, dah_samples) + TotalSamples(seq, n - 1)

\* The file at the output path holds the whole rendering.
FileComplete ==
    /\ file.exists
    /\ file.closed
    /\ file.samples = TotalSamples(morse_code, Len(morse_code))

----------------------------------------------------------------------------
(* properties *)

\* C1: for every input with a character other than '.', '-' and ' ',
\* parse_morse_code fails with an InvalidSymbol error and produces no
\* instructions, and neither renderer emits a tone or a sample.  Any panic
\* is taken for the failure here: what the claim excludes is that the
\* parse returns and main goes on to a renderer.
C1_InvalidSymbolRejected ==
    HasInvalidChar(code)
        => /\ pc \in {"main", "parse_loop", "panicked"}
           /\ morse_code = <<>>
           /\ sink = <<>>
           /\ log = <<>>
           /\ file.samples = 0

\* C2: for every valid Morse string the number of instructions returned is
\* the sum over the letters of (2 * symbols - 1) plus letters - 1
\* LetterSpace instructions; ".- -..." gives 11.
C2_InstructionCount ==
    (ValidMorse(code) /\ Parsed)
        => /\ Len(morse_code) = (2 * SymbolCount(code) - LetterCount(code))
                                + (LetterCount(code) - 1)
           /\ CountOf(morse_code, LetterSpace) = LetterCount(code) - 1
           /\ (code = ExampleAB => Len(morse_code) = 11)

C2_Witness ==
    /\ code = ExampleAB
    /\ pc = "done"
    /\ Len(morse_code) = 11
    /\ CountOf(morse_code, LetterSpace) = 1

\* C3: with unit = 0.3 s, render_audio writes exactly 13230 samples for each
\* Dit instruction and exactly 39690 for each Dah instruction.
C3_SampleCountLaw ==
    [][(/\ unit = DefaultUnit
        /\ pc = "render_loop"
        /\ pc' = "render_loop"
        /\ cursor' = cursor + 1)
       => LET is == morse_code[cursor + 1]
          IN  /\ is = Morse(Dit) => file'.samples = file.samples + 13230
              /\ is = Morse(Dah) => file'.samples = file.samples + 39690]_vars

\* C4: for every input string neither letters.len() - 1 nor
\* letter.len() - 1 is ever evaluated on a zero length.
C4_NoUnderflow == ~underflowed

\* C5: for every non-empty valid input the instructions returned start
\* with a tone and end with a tone.
C5_StartsAndEndsWithTone ==
    (ValidMorse(code) /\ Parsed)
        => /\ morse_code # <<>>
           /\ IsTone(morse_code[1])
           /\ IsTone(morse_code[Len(morse_code)])

C5_Witness ==
    /\ ValidMorse(code)
    /\ LetterCount(code) >= 2
    /\ SymbolCount(code) > LetterCount(code)
    /\ Parsed
    /\ pc = "play_loop"
    /\ cursor = Len(morse_code)
    /\ IsTone(morse_code[Len(morse_code)])

C7_SosDuration ==
    (code = SOS /\ unit = DefaultUnit /\ outfile /\ pc = "done")
        => file.samples \in 277829..277831

\* C8: after a failure to create the output file or to write a sample the
\* output path holds either no file or a complete file.
C8_NoPartialFile ==
    panic \in {"create", "write"} => (~file.exists \/ FileComplete)

\* C9: for a single-letter, single-symbol input parse_morse_code returns
\* exactly one tone and no gap, without underflow or crash.
C9_SingleSymbol ==
    (Len(code) = 1 /\ code[1] \in {".", "-"})
        => /\ ~underflowed
           /\ panic # "attempt to subtract with overflow"
           /\ pc \notin {"main", "parse_loop"}
                => morse_code = <<Morse(IF code[1] = "." THEN Dit ELSE Dah)>>

C9_Witness ==
    /\ code = <<".">>
    /\ pc = "done"
    /\ morse_code = <<Morse(Dit)>>
    /\ ~underflowed

\* C10: parse_morse_code emits no WordSpace for any input, so the
\* unreachable!() arms of play_audio and render_audio are never executed.
C10_NoWordSpace ==
    /\ CountOf(res, WordSpace) = 0
    /\ CountOf(morse_code, WordSpace) = 0
    /\ panic # "unreachable"

C10_Witness ==
    /\ pc = "done"
    /\ underflowed
    /\ CountOf(morse_code, LetterSpace) >= 2
    /\ cursor = Len(morse_code)

====
